---------------------------- MODULE Spec2Model ----------------------------
(* Model of OpenSeadragon's DataTypeConvertor (src/src/datatypeconvertor.js): *)
(* the WeightedGraph with its Dijkstra search, the registry operations learn, *)
(* learnDestroy, getConversionPath, convert and destroy, and the path cache.  *)
EXTENDS Integers, Sequences, FiniteSets, TLC

VARIABLES
    adjacencyList,  \* WeightedGraph.adjacencyList: type -> sequence of edges
    vertices,       \* WeightedGraph.vertices: type -> PriorityQueue.Node fields
    known,          \* DataTypeConvertor._known: from -> (to -> search result)
    destructors,    \* DataTypeConvertor.destructors: type -> callback
    conversions,    \* the convert calls made so far, each with its position
                    \* and the transforms and destructors it has invoked
    learnArgs,      \* history: arguments of every learn call, in order
    queried,        \* history: results getConversionPath returned since the last learn
    lastCall,       \* history: the call that produced the current state
    queue           \* a $.PriorityQueue of its own, with the nodes handed to it

vars == <<adjacencyList, vertices, known, destructors, conversions,
          learnArgs, queried, lastCall, queue>>

-----------------------------------------------------------------------------
(* Bounds of the model *)

MaxLearn == 2          \* learn calls made after construction
MaxConvert == 1        \* convert calls made
MaxInFlight == 2       \* convert calls made where conversions run concurrently
MaxItems == 3          \* length of an array handed to guessType

(* JavaScript values that are not numbers or type names *)
Infinity == 1000000    \* stands for the JS number Infinity: above every path cost
NoIndex == -1          \* a node whose 'index' property is deleted/undefined
Undefined == "undefined"
Null == "null"

Min(a, b) == IF a < b THEN a ELSE b
Max(a, b) == IF a > b THEN a ELSE b

(* JS bitwise XOR (operator ^) on non-negative integers *)
RECURSIVE BitXor(_, _)
BitXor(a, b) ==
    IF a = 0 THEN b
    ELSE IF b = 0 THEN a
    ELSE (((a % 2) + (b % 2)) % 2) + 2 * BitXor(a \div 2, b \div 2)

(* The empty function, the JS object {} *)
EmptyObject == [t \in {} |-> 0]

-----------------------------------------------------------------------------
(* $.PriorityQueue: indexed binary min-heap. 'nodes' is the heap array (a     *)
(* sequence of vertex names, heap position p at nodes[p + 1]); a node's key    *)
(* and recorded index live in 'vs', the map of vertex records.                 *)

HeapSwap(q, i, j) ==
    LET a == q.nodes[i + 1]
        b == q.nodes[j + 1]
    IN [nodes |-> [q.nodes EXCEPT ![i + 1] = b, ![j + 1] = a],
        vs |-> [q.vs EXCEPT ![a].index = j, ![b].index = i]]

RECURSIVE moveUp(_, _)
moveUp(q, index) ==
    IF index = 0 THEN q
    ELSE LET parentIndex == (index - 1) \div 2
         IN IF q.vs[q.nodes[parentIndex + 1]].key > q.vs[q.nodes[index + 1]].key
            THEN moveUp(HeapSwap(q, index, parentIndex), parentIndex)
            ELSE q

(* Mutant of moveDown: the left child is taken whatever the right child's key *)
RECURSIVE moveDownLeftOnly(_, _)
moveDownLeftOnly(q, index) ==
    LET count == Len(q.nodes)
        leftIndex == 2 * index + 1
    IN IF leftIndex >= count THEN q
       ELSE IF q.vs[q.nodes[leftIndex + 1]].key > q.vs[q.nodes[index + 1]].key
            THEN q
            ELSE moveDownLeftOnly(HeapSwap(q, index, leftIndex), leftIndex)

RECURSIVE moveDown(_, _)
moveDown(q, index) ==
    LET count == Len(q.nodes)
        leftIndex == 2 * index + 1
        rightIndex == 2 * index + 2
    IN IF leftIndex >= count THEN q
       ELSE LET smallerChildIndex ==
                    IF rightIndex < count
                       /\ q.vs[q.nodes[rightIndex + 1]].key < q.vs[q.nodes[leftIndex + 1]].key
                    THEN rightIndex ELSE leftIndex
            IN IF q.vs[q.nodes[smallerChildIndex + 1]].key > q.vs[q.nodes[index + 1]].key
               THEN q
               ELSE moveDown(HeapSwap(q, index, smallerChildIndex), smallerChildIndex)

insertNode(q, v) ==
    moveUp([nodes |-> Append(q.nodes, v),
            vs |-> [q.vs EXCEPT ![v].index = Len(q.nodes)]],
           Len(q.nodes))

getCount(q) == Len(q.nodes)

(* remove(), the end: the root's index is cleared and the root returned *)
Removed(q, rootNode) ==
    [nodes |-> q.nodes,
     vs |-> [q.vs EXCEPT ![rootNode].index = NoIndex],
     removed |-> rootNode]

(* remove(): extract the minimum; the result carries the extracted vertex *)
remove(q) ==
    Removed(IF Len(q.nodes) = 1
            THEN [nodes |-> <<>>, vs |-> q.vs]
            ELSE moveDown([nodes |-> [SubSeq(q.nodes, 1, Len(q.nodes) - 1)
                                        EXCEPT ![1] = q.nodes[Len(q.nodes)]],
                           vs |-> [q.vs EXCEPT ![q.nodes[Len(q.nodes)]].index = 0]], 0),
            q.nodes[1])

(* decreaseKey(node, key): a node that is not in the heap is inserted *)
decreaseKey(q, v, key) ==
    IF q.vs[v].index = NoIndex
    THEN insertNode([nodes |-> q.nodes, vs |-> [q.vs EXCEPT ![v].key = key]], v)
    ELSE moveUp([nodes |-> q.nodes, vs |-> [q.vs EXCEPT ![v].key = key]], q.vs[v].index)

-----------------------------------------------------------------------------
(* WeightedGraph *)

(* new $.PriorityQueue.Node(0, vertex) *)
NewNode == [key |-> 0, index |-> NoIndex, previous |-> Undefined]

(* The graph as a record g = [adj, vs] *)
addVertex(g, vertex) ==
    IF vertex \notin DOMAIN g.vs
    THEN [adj |-> [t \in DOMAIN g.adj \cup {vertex} |->
                      IF t = vertex THEN <<>> ELSE g.adj[t]],
          vs |-> [t \in DOMAIN g.vs \cup {vertex} |->
                      IF t = vertex THEN NewNode ELSE g.vs[t]]]
    ELSE g

(* Mutant of addEdge: an edge to the same target is replaced, not added to *)
addEdgeReplacing(g, vertex1, vertex2, weight, transform) ==
    [adj |-> [g.adj EXCEPT ![vertex1] =
                 Append(SelectSeq(@, LAMBDA e : e.target /= vertex2),
                        [target |-> vertex2, origin |-> vertex1,
                         weight |-> weight, transform |-> transform])],
     vs |-> g.vs]

addEdge(g, vertex1, vertex2, weight, transform) ==
    [adj |-> [g.adj EXCEPT ![vertex1] =
                 Append(@, [target |-> vertex2, origin |-> vertex1,
                            weight |-> weight, transform |-> transform])],
     vs |-> g.vs]

(* The search state: the queue, the vertex records, the node last extracted, *)
(* and whether the loop was left by 'break'                                   *)
SearchState(q, smallestNode, broke) ==
    [nodes |-> q.nodes, vs |-> q.vs, smallestNode |-> smallestNode, broke |-> broke]

(* Mutant of InsertStart: every vertex enters the queue up front *)
RECURSIVE InsertEach(_, _)
InsertEach(q, S) ==
    IF S = {} THEN q
    ELSE LET v == CHOOSE v \in S : TRUE
         IN InsertEach(insertNode(q, v), S \ {v})

InsertStartAllVertices(vs, start) ==
    InsertEach(insertNode([nodes |-> <<>>, vs |-> vs], start), DOMAIN vs \ {start})

(* Mutant of InsertStart: a start vertex that still carries a heap index is   *)
(* taken to be in the queue already                                            *)
InsertStartIfUnindexed(vs, start) ==
    IF start \in DOMAIN vs /\ vs[start].index = NoIndex
    THEN insertNode([nodes |-> <<>>, vs |-> vs], start)
    ELSE [nodes |-> <<>>, vs |-> vs]

(* dijkstra, lines 71-73: the start vertex, if there is one, enters the queue *)
InsertStart(vs, start) ==
    IF start \in DOMAIN vs
    THEN insertNode([nodes |-> <<>>, vs |-> vs], start)
    ELSE [nodes |-> <<>>, vs |-> vs]

(* Mutant of DijkstraReset: _previous is not cleared *)
DijkstraResetKeepPrevious(vs, start) ==
    SearchState(InsertStart([t \in DOMAIN vs |->
                               IF t = start
                               THEN [key |-> 0, index |-> vs[t].index,
                                     previous |-> vs[t].previous]
                               ELSE [key |-> Infinity, index |-> NoIndex,
                                     previous |-> vs[t].previous]],
                            start),
                Undefined, FALSE)

(* dijkstra, lines 66-79: reset every vertex, insert only the start vertex *)
DijkstraReset(vs, start) ==
    SearchState(InsertStart([t \in DOMAIN vs |->
                               IF t = start
                               THEN [key |-> 0, index |-> vs[t].index, previous |-> Null]
                               ELSE [key |-> Infinity, index |-> NoIndex, previous |-> Null]],
                            start),
                Undefined, FALSE)

(* Mutant of Relax: _previous is set for every edge looked at *)
RECURSIVE RelaxAlwaysLinks(_, _, _, _)
RelaxAlwaysLinks(q, neighbors, smallestNode, k) ==
    IF k > Len(neighbors) THEN q
    ELSE LET edge == neighbors[k]
             newCost == q.vs[smallestNode].key + edge.weight
             nextNeighbor == edge.target
             linked == [nodes |-> q.nodes,
                        vs |-> [q.vs EXCEPT ![nextNeighbor].previous = smallestNode]]
         IN IF newCost < q.vs[nextNeighbor].key
            THEN RelaxAlwaysLinks(decreaseKey(linked, nextNeighbor, newCost),
                                  neighbors, smallestNode, k + 1)
            ELSE RelaxAlwaysLinks(linked, neighbors, smallestNode, k + 1)

(* Mutant of Relax: a vertex's key is set on first discovery only *)
RECURSIVE RelaxFirstDiscovery(_, _, _, _)
RelaxFirstDiscovery(q, neighbors, smallestNode, k) ==
    IF k > Len(neighbors) THEN q
    ELSE LET edge == neighbors[k]
             newCost == q.vs[smallestNode].key + edge.weight
             nextNeighbor == edge.target
         IN IF q.vs[nextNeighbor].key = Infinity
            THEN RelaxFirstDiscovery(
                       decreaseKey([nodes |-> q.nodes,
                                    vs |-> [q.vs EXCEPT ![nextNeighbor].previous = smallestNode]],
                                   nextNeighbor, newCost),
                       neighbors, smallestNode, k + 1)
            ELSE RelaxFirstDiscovery(q, neighbors, smallestNode, k + 1)

(* dijkstra, lines 87-97: relax the edges neighbors[k..] of smallestNode *)
RECURSIVE Relax(_, _, _, _)
Relax(q, neighbors, smallestNode, k) ==
    IF k > Len(neighbors) THEN q
    ELSE LET edge == neighbors[k]
             newCost == q.vs[smallestNode].key + edge.weight
             nextNeighbor == edge.target
         IN IF newCost < q.vs[nextNeighbor].key
            THEN Relax(decreaseKey([nodes |-> q.nodes,
                                    vs |-> [q.vs EXCEPT ![nextNeighbor].previous = smallestNode]],
                                   nextNeighbor, newCost),
                       neighbors, smallestNode, k + 1)
            ELSE Relax(q, neighbors, smallestNode, k + 1)

(* dijkstra, lines 83-97: the iteration after r = nodes.remove() *)
Visit(adj, r, finish) ==
    IF r.removed = finish
    THEN SearchState(r, r.removed, TRUE)
    ELSE SearchState(Relax([nodes |-> r.nodes, vs |-> r.vs], adj[r.removed], r.removed, 1),
                     r.removed, FALSE)

(* dijkstra, lines 82-97: one iteration of the while loop *)
DijkstraIteration(adj, d, finish) ==
    Visit(adj, remove([nodes |-> d.nodes, vs |-> d.vs]), finish)

(* dijkstra, lines 81-98: the while loop *)
RECURSIVE DijkstraLoop(_, _, _)
DijkstraLoop(adj, d, finish) ==
    IF d.broke \/ getCount(d) = 0 THEN d
    ELSE DijkstraLoop(adj, DijkstraIteration(adj, d, finish), finish)

(* Array.prototype.find over an adjacency list: first edge with that target *)
RECURSIVE FindEdge(_, _, _)
FindEdge(edges, to, k) ==
    IF k > Len(edges) THEN Undefined
    ELSE IF edges[k].target = to THEN edges[k]
    ELSE FindEdge(edges, to, k + 1)

Reverse(s) == [i \in 1..Len(s) |-> s[Len(s) + 1 - i]]

(* dijkstra, lines 107-115: walk the _previous links, pushing edges *)
RECURSIVE Backtrack(_, _, _, _)
Backtrack(adj, vs, smallestNode, path) ==
    IF vs[smallestNode].previous \in {Null, Undefined} THEN path
    ELSE LET to == smallestNode
             parent == vs[smallestNode].previous
         IN Backtrack(adj, vs, parent, Append(path, FindEdge(adj[parent], to, 1)))

(* Search results: undefined, or {path, cost} *)
NoPath == [defined |-> FALSE, path |-> <<>>, cost |-> 0]
Found(path, cost) == [defined |-> TRUE, path |-> path, cost |-> cost]

(* dijkstra, lines 100-120: the result, from the state d the loop ended in *)
DijkstraResult(adj, d) ==
    IF d.smallestNode = Undefined
       \/ d.vs[d.smallestNode].previous \in {Null, Undefined}
    THEN [result |-> NoPath, vs |-> d.vs]
    ELSE [result |-> Found(Reverse(Backtrack(adj, d.vs, d.smallestNode, <<>>)),
                           d.vs[d.smallestNode].key),
          vs |-> d.vs]

(* dijkstra, lines 66-120: the search proper, for start /= finish *)
DijkstraSearch(g, start, finish) ==
    DijkstraResult(g.adj, DijkstraLoop(g.adj, DijkstraReset(g.vs, start), finish))

(* Mutant of dijkstra: no shortcut for start = finish *)
dijkstraAlwaysSearch(g, start, finish) == DijkstraSearch(g, start, finish)

(* WeightedGraph.dijkstra(start, finish): the result and the vertex records   *)
(* the search leaves behind                                                     *)
dijkstra(g, start, finish) ==
    IF start = finish
    THEN [result |-> Found(<<>>, 0), vs |-> g.vs]
    ELSE DijkstraSearch(g, start, finish)

-----------------------------------------------------------------------------
(* DataTypeConvertor *)

(* learn, lines 256-260: the weight given to the new edge. In JavaScript ^ is *)
(* bitwise XOR and binds weaker than * and +.                                  *)
ClampMultiplier(costMultiplier) ==
    Min(Max(costMultiplier, 1), BitXor(10, 5))

LearnWeight(costPower, costMultiplier) ==
    BitXor((costPower + 1) * 10, 5 + ClampMultiplier(costMultiplier))

(* learn, lines 258-260: the graph after the call; the transform is named by  *)
(* the number of the learn call that registered it                             *)
LearnGraph(g, from, to, callback, costPower, costMultiplier) ==
    addEdge(addVertex(addVertex(g, from), to), from, to,
            LearnWeight(costPower, costMultiplier), callback)

(* constructor, lines 161-180: the built-in conversions, in order *)
Builtins ==
    << [from |-> "canvas",    to |-> "rasterUrl", costPower |-> 1, costMultiplier |-> 1],
       [from |-> "image",     to |-> "rasterUrl", costPower |-> 0, costMultiplier |-> 1],
       [from |-> "canvas",    to |-> "context2d", costPower |-> 0, costMultiplier |-> 1],
       [from |-> "context2d", to |-> "canvas",    costPower |-> 0, costMultiplier |-> 1],
       [from |-> "image",     to |-> "canvas",    costPower |-> 1, costMultiplier |-> 1],
       [from |-> "rasterUrl", to |-> "image",     costPower |-> 1, costMultiplier |-> 1] >>

RECURSIVE Construct(_, _)
Construct(g, k) ==
    IF k > Len(Builtins) THEN g
    ELSE Construct(LearnGraph(g, Builtins[k].from, Builtins[k].to, k,
                              Builtins[k].costPower, Builtins[k].costMultiplier),
                   k + 1)

ConstructedGraph == Construct([adj |-> EmptyObject, vs |-> EmptyObject], 1)

(* obj[k] = v on a JS object *)
Put(obj, k, v) == [x \in DOMAIN obj \cup {k} |-> IF x = k THEN v ELSE obj[x]]

(* obj[k], undefined (no path) when the key is missing *)
Get(obj, k) == IF k \in DOMAIN obj THEN obj[k] ELSE NoPath

(* Mutant of BestCandidate: the first cached candidate wins, whatever it costs *)
RECURSIVE BestCandidateFirstCached(_, _, _, _)
BestCandidateFirstCached(knownFrom, to, k, acc) ==
    IF k > Len(to) THEN acc
    ELSE IF Get(knownFrom, to[k]).defined /\ ~acc.bestConvertorPath.defined
         THEN BestCandidateFirstCached(knownFrom, to, k + 1,
                                       [bestConvertorPath |-> Get(knownFrom, to[k]),
                                        bestCost |-> Get(knownFrom, to[k]).cost,
                                        selectedType |-> to[k]])
         ELSE BestCandidateFirstCached(knownFrom, to, k + 1, acc)

(* getConversionPath, lines 345-358: scan the candidates to[k..] for the      *)
(* cheapest cached conversion                                                   *)
RECURSIVE BestCandidate(_, _, _, _)
BestCandidate(knownFrom, to, k, acc) ==
    IF k > Len(to) THEN acc
    ELSE LET outType == to[k]
             conversion == Get(knownFrom, outType)
         IN IF conversion.defined /\ acc.bestCost > conversion.cost
            THEN BestCandidate(knownFrom, to, k + 1,
                               [bestConvertorPath |-> conversion,
                                bestCost |-> conversion.cost,
                                selectedType |-> outType])
            ELSE BestCandidate(knownFrom, to, k + 1, acc)

(* Where a freshly computed result is stored in the cache, line 367 *)
StoreKnown(kn, from, selectedType, result) ==
    [kn EXCEPT ![from] = Put(@, selectedType, result)]

(* getConversionPath, lines 338-341: the cache with an object for 'from' *)
KnownFrom(kn, from) ==
    IF from \in DOMAIN kn THEN kn ELSE Put(kn, from, EmptyObject)

(* Mutant of SelectType: with nothing cached the last candidate is chosen *)
SelectTypeLast(knownFrom, to, isArray) ==
    IF isArray
    THEN BestCandidate(knownFrom, to, 1,
                       [bestConvertorPath |-> NoPath, bestCost |-> Infinity,
                        selectedType |-> to[Len(to)]])
    ELSE [bestConvertorPath |-> Get(knownFrom, to[1]), bestCost |-> Infinity,
          selectedType |-> to[1]]

(* getConversionPath, lines 343-363: the cached conversion and the type chosen *)
SelectType(knownFrom, to, isArray) ==
    IF isArray
    THEN BestCandidate(knownFrom, to, 1,
                       [bestConvertorPath |-> NoPath, bestCost |-> Infinity,
                        selectedType |-> to[1]])
    ELSE [bestConvertorPath |-> Get(knownFrom, to[1]), bestCost |-> Infinity,
          selectedType |-> to[1]]

(* getConversionPath, lines 366-369, with the result 'search' of dijkstra *)
Searched(known1, from, selectedType, search) ==
    [ret |-> [defined |-> search.result.defined, path |-> search.result.path],
     known |-> StoreKnown(known1, from, selectedType, search.result),
     vs |-> search.vs,
     searched |-> TRUE,
     selectedType |-> selectedType]

(* getConversionPath, lines 365-369 *)
ResolvePath(known1, g, from, choice) ==
    IF ~choice.bestConvertorPath.defined
    THEN Searched(known1, from, choice.selectedType,
                  dijkstra(g, from, choice.selectedType))
    ELSE [ret |-> [defined |-> TRUE, path |-> choice.bestConvertorPath.path],
          known |-> known1,
          vs |-> g.vs,
          searched |-> FALSE,
          selectedType |-> choice.selectedType]

(* getConversionPath(from, to): 'to' is a sequence of types, isArray tells    *)
(* whether the caller passed an array or the single string to[1]. Yields the   *)
(* returned value, the cache and vertex records afterwards, and whether a      *)
(* search ran.                                                                  *)
getConversionPath(kn, g, from, to, isArray) ==
    ResolvePath(KnownFrom(kn, from), g, from,
                SelectType(KnownFrom(kn, from)[from], to, isArray))

(* guessType. A string is a sequence of characters; CharCode gives the UTF-16 *)
(* code unit of each character that occurs.                                    *)
CharCode ==
    [c \in {" ", ",", "-", "A", "B", "[", "]", "a", "b", "c", "d", "e", "f", "g",
            "i", "j", "l", "m", "n", "o", "r", "s", "t", "u", "v", "y"} |->
       CASE c = " " -> 32 [] c = "," -> 44 [] c = "-" -> 45 [] c = "A" -> 65
         [] c = "B" -> 66 [] c = "[" -> 91 [] c = "]" -> 93 [] c = "a" -> 97
         [] c = "b" -> 98 [] c = "c" -> 99 [] c = "d" -> 100 [] c = "e" -> 101
         [] c = "f" -> 102 [] c = "g" -> 103 [] c = "i" -> 105 [] c = "j" -> 106
         [] c = "l" -> 108 [] c = "m" -> 109 [] c = "n" -> 110 [] c = "o" -> 111
         [] c = "r" -> 114 [] c = "s" -> 115 [] c = "t" -> 116 [] c = "u" -> 117
         [] c = "v" -> 118 [] c = "y" -> 121]

(* a < b as JavaScript compares strings: by code units, a prefix first *)
RECURSIVE StringLess(_, _)
StringLess(a, b) ==
    IF b = <<>> THEN FALSE
    ELSE IF a = <<>> THEN TRUE
    ELSE IF a[1] = b[1] THEN StringLess(Tail(a), Tail(b))
    ELSE CharCode[a[1]] < CharCode[b[1]]

ImageTag == <<"i", "m", "a", "g", "e">>
StringTag == <<"s", "t", "r", "i", "n", "g">>
ObjectTag == <<"o", "b", "j", "e", "c", "t">>
DomNodeTag == <<"d", "o", "m", "-", "n", "o", "d", "e">>
NullTag == <<"n", "u", "l", "l">>
UndefinedTag == <<"u", "n", "d", "e", "f", "i", "n", "e", "d">>
CustomTag == <<"B", "a", "y", "e", "r">>
ArrayPrefix == <<"A", "r", "r", "a", "y", " ", "[">>

(* The values guessType is given: null, undefined, a value of a native type   *)
(* ($.type names it), a DOM node, an object with or without getType, an array  *)
(* 'tag' is the name $.type gives a native value, the nodeName of a DOM node, *)
(* what getType() of an object returns                                         *)
Js(kind, tag, hasGetType, items) ==
    [kind |-> kind, tag |-> tag, hasGetType |-> hasGetType, items |-> items]
JsNull == Js("null", <<>>, FALSE, <<>>)
JsUndefined == Js("undefined", <<>>, FALSE, <<>>)
Native(tag) == Js("native", tag, FALSE, <<>>)
DomNode(nodeName) == Js("dom-node", nodeName, FALSE, <<>>)
PlainObject == Js("object", <<>>, FALSE, <<>>)
TypedObject(tag) == Js("object", tag, TRUE, <<>>)
ArrayOf(items) == Js("array", <<>>, FALSE, items)

(* $.type(x) *)
TypeOf(x) ==
    CASE x.kind = "native" -> x.tag
      [] x.kind = "dom-node" -> DomNodeTag
      [] x.kind = "null" -> NullTag
      [] x.kind = "undefined" -> UndefinedTag
      [] OTHER -> ObjectTag

(* What a call yields: a string, or an exception *)
Returns(string) == [thrown |-> FALSE, string |-> string]
Throws == [thrown |-> TRUE, string |-> <<>>]

(* Array.prototype.sort() without a comparator, as an insertion sort *)
RECURSIVE SortInsert(_, _)
SortInsert(sorted, type) ==
    IF sorted = <<>> THEN <<type>>
    ELSE IF StringLess(type, sorted[1]) THEN <<type>> \o sorted
    ELSE <<sorted[1]>> \o SortInsert(Tail(sorted), type)

RECURSIVE Sort(_)
Sort(types) ==
    IF types = <<>> THEN <<>> ELSE SortInsert(Sort(Tail(types)), types[1])

(* types.join(",") *)
RECURSIVE Join(_)
Join(types) ==
    IF types = <<>> THEN <<>>
    ELSE IF Len(types) = 1 THEN types[1]
    ELSE types[1] \o <<",">> \o Join(Tail(types))

(* guessType, lines 207-215: one pass of the loop over the items, 'types'     *)
(* being the list so far and 'guessed' the result of guessType(item)           *)
Collect(types, item, guessed) ==
    IF item.kind \in {"undefined", "null"} THEN Returns(types)
    ELSE IF guessed.thrown THEN Throws
    ELSE IF \E k \in DOMAIN types : types[k] = guessed.string THEN Returns(types)
    ELSE Returns(Append(types, guessed.string))

(* guessType(x), lines 203-232; typeof "dom-node".nodeName is undefined, so    *)
(* line 222 throws a TypeError                                                 *)
RECURSIVE guessType(_)
RECURSIVE GuessItems(_, _, _)
GuessItems(items, k, types) ==
    IF types.thrown \/ k > Len(items) THEN types
    ELSE GuessItems(items, k + 1,
                    Collect(types.string, items[k],
                            IF items[k].kind \in {"undefined", "null"} THEN Throws
                            ELSE guessType(items[k])))

FormatArray(types) ==
    IF types.thrown THEN Throws
    ELSE Returns(ArrayPrefix \o Join(Sort(types.string)) \o <<"]">>)

guessType(x) ==
    IF x.kind = "array" THEN FormatArray(GuessItems(x.items, 1, Returns(<<>>)))
    ELSE IF TypeOf(x) = DomNodeTag THEN Throws
    ELSE IF TypeOf(x) = ObjectTag /\ x.hasGetType THEN Returns(x.tag)
    ELSE Returns(TypeOf(x))

(* Values handed to and produced by transforms: a value is known by the list  *)
(* of transforms that produced it from the caller's value                      *)
Value(trace) == [kind |-> "value", trace |-> trace]
UndefinedValue == [kind |-> "undefined", trace |-> <<>>]
InputValue == Value(<<>>)
OtherValue == Value(<<0>>)

(* destroy(type, data), lines 317-322; lg lists the callbacks invoked so far *)
destroy(ds, type, data, lg) ==
    IF type \in DOMAIN ds
    THEN Append(lg, [kind |-> "destroy", callback |-> ds[type],
                     type |-> type, data |-> data])
    ELSE lg

(* Mutant of step: the value convert was called with is left to the caller *)
stepSparesInput(c, outcome, ds) ==
    IF c.i >= Len(c.path)
    THEN [c EXCEPT !.status = "resolved", !.result = c.x]
    ELSE LET edge == c.path[c.i + 1]
             called == Append(c.log, [kind |-> "transform", callback |-> edge.transform,
                                      type |-> edge.origin, data |-> c.x])
             y == Value(Append(c.x.trace, edge.transform))
         IN IF outcome = "throw"
            THEN [c EXCEPT !.status = IF c.i = 0 THEN "thrown" ELSE "rejected",
                           !.result = UndefinedValue, !.log = called]
            ELSE IF outcome = "falsy"
            THEN [c EXCEPT !.status = "resolved", !.result = UndefinedValue,
                           !.log = called]
            ELSE [c EXCEPT !.i = @ + 1, !.x = y,
                           !.status = IF outcome = "promise" THEN "awaiting" ELSE "pending",
                           !.log = IF c.i = 0 THEN called
                                   ELSE destroy(ds, edge.origin, c.x, called)]

(* Mutant of step: the input of a step is destroyed before the result of its  *)
(* transform is looked at                                                      *)
stepDestroyFirst(c, outcome, ds) ==
    IF c.i >= Len(c.path)
    THEN [c EXCEPT !.status = "resolved", !.result = c.x]
    ELSE LET edge == c.path[c.i + 1]
             called == Append(c.log, [kind |-> "transform", callback |-> edge.transform,
                                      type |-> edge.origin, data |-> c.x])
             y == Value(Append(c.x.trace, edge.transform))
         IN IF outcome = "throw"
            THEN [c EXCEPT !.status = IF c.i = 0 THEN "thrown" ELSE "rejected",
                           !.result = UndefinedValue, !.log = called]
            ELSE IF outcome = "falsy"
            THEN [c EXCEPT !.status = "resolved", !.result = UndefinedValue,
                           !.log = destroy(ds, edge.origin, c.x, called)]
            ELSE [c EXCEPT !.i = @ + 1, !.x = y,
                           !.status = IF outcome = "promise" THEN "awaiting" ELSE "pending",
                           !.log = destroy(ds, edge.origin, c.x, called)]

(* Mutant of step: every transform is handed the value convert was called with *)
stepFromInput(c, outcome, ds) ==
    IF c.i >= Len(c.path)
    THEN [c EXCEPT !.status = "resolved", !.result = c.x]
    ELSE LET edge == c.path[c.i + 1]
             called == Append(c.log, [kind |-> "transform", callback |-> edge.transform,
                                      type |-> edge.origin, data |-> c.input])
             y == Value(Append(c.input.trace, edge.transform))
         IN IF outcome = "throw"
            THEN [c EXCEPT !.status = IF c.i = 0 THEN "thrown" ELSE "rejected",
                           !.result = UndefinedValue, !.log = called]
            ELSE IF outcome = "falsy"
            THEN [c EXCEPT !.status = "resolved", !.result = UndefinedValue,
                           !.log = called]
            ELSE [c EXCEPT !.i = @ + 1, !.x = y,
                           !.status = IF outcome = "promise" THEN "awaiting" ELSE "pending",
                           !.log = destroy(ds, edge.origin, c.input, called)]

(* convert, lines 294-308: step(x, i) of the conversion c, whose fields i and *)
(* x are the arguments; 'outcome' is what the transform does: return a value,  *)
(* return a falsy value, return a promise, or throw. step(x, 0) runs inside    *)
(* convert, so that a throw leaves convert; a later step runs inside a 'then'  *)
(* callback, so that a throw rejects the promise convert returned.             *)
step(c, outcome, ds) ==
    IF c.i >= Len(c.path)
    THEN [c EXCEPT !.status = "resolved", !.result = c.x]
    ELSE LET edge == c.path[c.i + 1]
             called == Append(c.log, [kind |-> "transform", callback |-> edge.transform,
                                      type |-> edge.origin, data |-> c.x])
             y == Value(Append(c.x.trace, edge.transform))
         IN IF outcome = "throw"
            THEN [c EXCEPT !.status = IF c.i = 0 THEN "thrown" ELSE "rejected",
                           !.result = UndefinedValue, !.log = called]
            ELSE IF outcome = "falsy"
            THEN [c EXCEPT !.status = "resolved", !.result = UndefinedValue,
                           !.log = called]
            ELSE [c EXCEPT !.i = @ + 1, !.x = y,
                           !.status = IF outcome = "promise" THEN "awaiting" ELSE "pending",
                           !.log = destroy(ds, edge.origin, c.x, called)]

-----------------------------------------------------------------------------
(* State and calls *)

(* new $.PriorityQueue(), and the nodes that may be handed to it *)
QueueNodes == {"a", "b", "c", "d", "e"}

EmptyQueue ==
    [nodes |-> <<>>,
     vs |-> [v \in QueueNodes |-> [key |-> 0, index |-> NoIndex]]]

Graph == [adj |-> adjacencyList, vs |-> vertices]

NoRet == [defined |-> FALSE, path |-> <<>>]

Call(op, from, to, isArray, ret, searched, repeat, prev) ==
    [op |-> op, from |-> from, to |-> to, isArray |-> isArray, ret |-> ret,
     searched |-> searched, repeat |-> repeat, prev |-> prev]

(* The state after new $.DataTypeConvertor() *)
Init ==
    /\ adjacencyList = ConstructedGraph.adj
    /\ vertices = ConstructedGraph.vs
    /\ known = EmptyObject
    /\ destructors = EmptyObject
    /\ conversions = <<>>
    /\ learnArgs = Builtins
    /\ queried = EmptyObject
    /\ lastCall = Call("new", "", <<>>, FALSE, NoRet, FALSE, FALSE, NoRet)
    /\ queue = EmptyQueue

(* Mutant of LearnKnown: learn leaves the cache as it is *)
LearnKnownKept(kn) == kn

(* learn, line 261: the cache after a learn call *)
LearnKnown(kn) == EmptyObject

(* learn, lines 258-260: the graph becomes g *)
Learned(g) ==
    /\ adjacencyList' = g.adj
    /\ vertices' = g.vs

(* What the cache holds for (from, to) *)
Cached(from, to) ==
    Get(IF from \in DOMAIN known THEN known[from] ELSE EmptyObject, to)

(* learn(from, to, callback, costPower, costMultiplier) *)
Learn(from, to, costPower, costMultiplier) ==
    /\ Len(learnArgs) < Len(Builtins) + MaxLearn
    /\ Learned(LearnGraph(Graph, from, to, Len(learnArgs) + 1, costPower, costMultiplier))
    /\ known' = LearnKnown(known)
    /\ learnArgs' = Append(learnArgs, [from |-> from, to |-> to, costPower |-> costPower,
                                       costMultiplier |-> costMultiplier])
    /\ queried' = EmptyObject
    /\ lastCall' = Call("learn", from, <<to>>, FALSE, NoRet, FALSE,
                        Cached(from, to).defined,
                        [defined |-> Cached(from, to).defined,
                         path |-> Cached(from, to).path])
    /\ UNCHANGED <<queue, destructors, conversions>>

(* $.isFunction(callback): a callback is named by the number of the learn     *)
(* call that registered it, and by the negative of that number when it is not  *)
(* a function                                                                  *)
isFunction(callback) == callback > 0

(* learn, lines 252-253: what the two $.console.assert calls report; a false  *)
(* condition is written to the console and learn goes on                       *)
LearnReports(callback, costPower) ==
    (IF costPower >= 0 /\ costPower <= 7 THEN <<>> ELSE <<"costPower">>)
    \o (IF isFunction(callback) THEN <<>> ELSE <<"callback">>)

(* learn(from, to, callback, costPower, costMultiplier) for any arguments *)
LearnWith(from, to, callback, costPower, costMultiplier) ==
    /\ Len(learnArgs) < Len(Builtins) + MaxLearn
    /\ Learned(LearnGraph(Graph, from, to, callback, costPower, costMultiplier))
    /\ known' = LearnKnown(known)
    /\ learnArgs' = Append(learnArgs, [from |-> from, to |-> to, costPower |-> costPower,
                                       costMultiplier |-> costMultiplier])
    /\ queried' = EmptyObject
    /\ lastCall' = Call("learn", from, <<to>>, FALSE, NoRet, FALSE,
                        Cached(from, to).defined,
                        [defined |-> Cached(from, to).defined,
                         path |-> Cached(from, to).path])
                      @@ [reports |-> LearnReports(callback, costPower)]
    /\ UNCHANGED <<queue, destructors, conversions>>

(* learn called with a callback that is a function, or one that is not *)
LearnAny(from, to, callable, costPower, costMultiplier) ==
    LearnWith(from, to,
              IF callable THEN Len(learnArgs) + 1 ELSE 0 - (Len(learnArgs) + 1),
              costPower, costMultiplier)

(* queue.insertNode(new $.PriorityQueue.Node(key, v)), v not being in the queue *)
QueueInsertNode(v, key) ==
    /\ queue.vs[v].index = NoIndex
    /\ queue' = insertNode([nodes |-> queue.nodes,
                            vs |-> [queue.vs EXCEPT ![v].key = key]], v)
    /\ lastCall' = Call("insertNode", v, <<>>, FALSE, NoRet, FALSE, FALSE, NoRet)
                      @@ [removed |-> Undefined]
    /\ UNCHANGED <<adjacencyList, vertices, known, destructors, conversions,
                   learnArgs, queried>>

(* The queue has returned the node r.removed *)
QueueRemoved(r) ==
    /\ queue' = [nodes |-> r.nodes, vs |-> r.vs]
    /\ lastCall' = Call("remove", r.removed, <<>>, FALSE, NoRet, FALSE, FALSE, NoRet)
                      @@ [removed |-> r.removed]

(* queue.remove(), the queue holding a node (getCount() > 0, as at line 81) *)
QueueRemove ==
    /\ getCount(queue) > 0
    /\ QueueRemoved(remove(queue))
    /\ UNCHANGED <<adjacencyList, vertices, known, destructors, conversions,
                   learnArgs, queried>>

(* queue.decreaseKey(v, key) with key below the node's key, as at lines 92-95 *)
QueueDecreaseKey(v, key) ==
    /\ key < queue.vs[v].key
    /\ queue' = decreaseKey(queue, v, key)
    /\ lastCall' = Call("decreaseKey", v, <<>>, FALSE, NoRet, FALSE, FALSE, NoRet)
                      @@ [removed |-> Undefined]
    /\ UNCHANGED <<adjacencyList, vertices, known, destructors, conversions,
                   learnArgs, queried>>

(* getConversionPath has returned r: the cache and the vertex records it left *)
Returned(r, from, to, isArray) ==
    /\ known' = r.known
    /\ vertices' = r.vs
    /\ lastCall' = Call("getConversionPath", from, to, isArray, r.ret, r.searched,
                        ~isArray /\ <<from, to[1]>> \in DOMAIN queried,
                        IF ~isArray /\ <<from, to[1]>> \in DOMAIN queried
                        THEN queried[<<from, to[1]>>] ELSE NoRet)
    /\ queried' = IF isArray THEN queried ELSE Put(queried, <<from, to[1]>>, r.ret)
    /\ UNCHANGED <<queue, adjacencyList, destructors, conversions, learnArgs>>

(* getConversionPath(from, to) with a single destination type *)
GetConversionPath(from, to) ==
    Returned(getConversionPath(known, Graph, from, <<to>>, FALSE), from, <<to>>, FALSE)

(* getConversionPath(from, to) with an array of candidate types *)
GetConversionPathArray(from, to) ==
    Returned(getConversionPath(known, Graph, from, to, TRUE), from, to, TRUE)

(* Mutant of LearnDestroy: a destructor already registered is not replaced *)
LearnDestroyKeepFirst(type, callback) ==
    /\ destructors' = IF type \in DOMAIN destructors THEN destructors
                      ELSE Put(destructors, type, callback)
    /\ lastCall' = Call("learnDestroy", type, <<>>, FALSE, NoRet, FALSE, FALSE, NoRet)
                      @@ [callback |-> callback]
    /\ UNCHANGED <<queue, adjacencyList, vertices, known, conversions, learnArgs, queried>>

(* learnDestroy(type, callback) *)
LearnDestroy(type, callback) ==
    /\ destructors' = Put(destructors, type, callback)
    /\ lastCall' = Call("learnDestroy", type, <<>>, FALSE, NoRet, FALSE, FALSE, NoRet)
                      @@ [callback |-> callback]
    /\ UNCHANGED <<queue, adjacencyList, vertices, known, conversions, learnArgs, queried>>

(* Mutant of Destroy: the call also drops the cached paths *)
DestroyInvalidating(type, data) ==
    /\ lastCall' = Call("destroy", type, <<>>, FALSE, NoRet, FALSE, FALSE, NoRet)
                      @@ [data |-> data,
                          invoked |-> destroy(destructors, type, data, <<>>)]
    /\ known' = EmptyObject
    /\ UNCHANGED <<queue, adjacencyList, vertices, destructors, conversions, learnArgs,
                   queried>>

(* destroy(type, data), called from outside convert; the call records the     *)
(* callbacks it invoked                                                        *)
Destroy(type, data) ==
    /\ lastCall' = Call("destroy", type, <<>>, FALSE, NoRet, FALSE, FALSE, NoRet)
                      @@ [data |-> data,
                          invoked |-> destroy(destructors, type, data, <<>>)]
    /\ UNCHANGED <<queue, adjacencyList, vertices, known, destructors, conversions, learnArgs,
                   queried>>

(* Mutant of Started: convert goes on without a path as over an empty one *)
StartedWithoutPath(ret, x, from, to, outcome, ds) ==
    step([from |-> from, to |-> to, input |-> x, planned |-> ret.defined,
          path |-> ret.path, i |-> 0, x |-> x, status |-> "pending",
          result |-> UndefinedValue, log |-> <<>>],
         outcome, ds)

(* convert, lines 287-309: the conversion as it stands when convert returns,  *)
(* getConversionPath having returned 'ret'                                     *)
Started(ret, x, from, to, outcome, ds) ==
    IF ~ret.defined
    THEN [from |-> from, to |-> to, input |-> x, planned |-> FALSE, path |-> <<>>,
          i |-> 0, x |-> x, status |-> "resolved", result |-> UndefinedValue,
          log |-> <<>>]
    ELSE step([from |-> from, to |-> to, input |-> x, planned |-> TRUE, path |-> ret.path,
               i |-> 0, x |-> x, status |-> "pending", result |-> UndefinedValue,
               log |-> <<>>],
              outcome, ds)

(* convert, lines 286-309, getConversionPath having returned r *)
Planned(r, x, from, to, outcome) ==
    /\ known' = r.known
    /\ vertices' = r.vs
    /\ lastCall' = Call("convert", from, to, TRUE, r.ret, r.searched, FALSE, NoRet)
    /\ conversions' = Append(conversions, Started(r.ret, x, from, to, outcome, destructors))
    /\ UNCHANGED <<queue, adjacencyList, destructors, learnArgs, queried>>

(* convert(x, from, ...to), lines 285-309, up to the first suspension *)
Convert(x, from, to, outcome) ==
    /\ Len(conversions) < MaxConvert
    /\ Planned(getConversionPath(known, Graph, from, to, TRUE), x, from, to, outcome)

(* convert(x, from, ...to) while other conversions may be in flight *)
ConvertInFlight(x, from, to, outcome) ==
    /\ Len(conversions) < MaxInFlight
    /\ Planned(getConversionPath(known, Graph, from, to, TRUE), x, from, to, outcome)

(* guessType(x) *)
GuessType(x) ==
    /\ lastCall' = Call("guessType", "", <<>>, FALSE, NoRet, FALSE, FALSE, NoRet)
                      @@ [x |-> x, result |-> guessType(x)]
    /\ UNCHANGED <<queue, adjacencyList, vertices, known, destructors, conversions, learnArgs,
                   queried>>

(* The promise returned by a transform resolves, to a value or to a falsy    *)
(* value; line 307 hands the resolution to the next step as its x             *)
Settle(n, resolution) ==
    /\ n \in DOMAIN conversions
    /\ conversions[n].status = "awaiting"
    /\ conversions' = [conversions EXCEPT
                         ![n].status = "pending",
                         ![n].x = IF resolution = "falsy" THEN UndefinedValue ELSE @]
    /\ UNCHANGED <<queue, adjacencyList, vertices, known, destructors, learnArgs,
                   queried, lastCall>>

(* The promise returned by a transform rejects (as at line 176); line 307 has *)
(* no rejection handler, so the promise convert returned rejects               *)
Reject(n) ==
    /\ n \in DOMAIN conversions
    /\ conversions[n].status = "awaiting"
    /\ conversions' = [conversions EXCEPT ![n].status = "rejected",
                                          ![n].result = UndefinedValue]
    /\ UNCHANGED <<queue, adjacencyList, vertices, known, destructors, learnArgs,
                   queried, lastCall>>

(* Mutant of ContinueStep: the step takes the path the cache holds now *)
ContinueStepReplanned(n, outcome) ==
    /\ n \in DOMAIN conversions
    /\ conversions[n].status = "pending"
    /\ conversions' = [conversions EXCEPT
                         ![n] = step(IF Cached(conversions[n].from,
                                               conversions[n].to[1]).defined
                                     THEN [conversions[n] EXCEPT
                                             !.path = Cached(conversions[n].from,
                                                             conversions[n].to[1]).path]
                                     ELSE conversions[n],
                                     outcome, destructors)]
    /\ UNCHANGED <<queue, adjacencyList, vertices, known, destructors, learnArgs,
                   queried, lastCall>>

(* convert, line 307: the callback res => step(res, i + 1) runs *)
ContinueStep(n, outcome) ==
    /\ n \in DOMAIN conversions
    /\ conversions[n].status = "pending"
    /\ conversions' = [conversions EXCEPT ![n] = step(@, outcome, destructors)]
    /\ UNCHANGED <<queue, adjacencyList, vertices, known, destructors, learnArgs,
                   queried, lastCall>>

-----------------------------------------------------------------------------
(* Planning: learn and getConversionPath *)

LearnCalls == {<<"canvas", "A", 0, 1>>, <<"canvas", "A", 2, 1>>,
               <<"canvas", "image", 0, 1>>, <<"A", "image", 0, 5>>}
Queries == {<<"canvas", "A">>, <<"canvas", "image">>, <<"A", "image">>}
QueryArrays == {<<"canvas", <<"A", "image">> >>, <<"canvas", <<"image", "A">> >>}

Next ==
    \/ \E l \in LearnCalls : Learn(l[1], l[2], l[3], l[4])
    \/ \E q \in Queries : GetConversionPath(q[1], q[2])
    \/ \E q \in QueryArrays : GetConversionPathArray(q[1], q[2])

Spec == Init /\ [][Next]_vars

(* Execution: convert, with learn, learnDestroy and getConversionPath *)

ConvertLearnCalls == {<<"canvas", "A", 0, 1>>, <<"A", "image", 0, 5>>}
ConvertQueries == {<<"canvas", "canvas">>, <<"B", "B">>}
ConvertCalls == {<<"canvas", <<"canvas">> >>, <<"A", <<"A">> >>,
                 <<"rasterUrl", <<"context2d">> >>, <<"canvas", <<"image", "A">> >>,
                 <<"B", <<"canvas">> >>}
Outcomes == {"value", "promise", "falsy", "throw"}
Resolutions == {"value", "falsy"}
DestroyTypes == {"canvas"}
Destructors == {"destroyA", "destroyB"}
LearnDestroyCalls == (DestroyTypes \X Destructors) \cup {<<"A", "destroyA">>}

NextConvert ==
    \/ \E l \in ConvertLearnCalls : Learn(l[1], l[2], l[3], l[4])
    \/ \E q \in ConvertQueries : GetConversionPath(q[1], q[2])
    \/ \E d \in LearnDestroyCalls : LearnDestroy(d[1], d[2])
    \/ \E t \in DestroyTypes : Destroy(t, InputValue)
    \/ \E c \in ConvertCalls, o \in Outcomes : Convert(InputValue, c[1], c[2], o)
    \/ \E n \in 1..MaxConvert, v \in Resolutions : Settle(n, v)
    \/ \E n \in 1..MaxConvert : Reject(n)
    \/ \E n \in 1..MaxConvert, o \in Outcomes : ContinueStep(n, o)

ConvertSpec == Init /\ [][NextConvert]_vars

(* Concurrent conversions, with learn and getConversionPath in between *)

ConcurrentQueries == {<<"canvas", "image">>}
ConcurrentCalls == {<<InputValue, "canvas", <<"image", "A">> >>,
                    <<OtherValue, "canvas", <<"image", "A">> >>,
                    <<OtherValue, "image", <<"A", "canvas">> >>}
ConcurrentOutcomes == {"value", "promise"}

NextConcurrent ==
    \/ \E l \in ConvertLearnCalls : Learn(l[1], l[2], l[3], l[4])
    \/ \E q \in ConcurrentQueries : GetConversionPath(q[1], q[2])
    \/ \E c \in ConcurrentCalls, o \in ConcurrentOutcomes :
          ConvertInFlight(c[1], c[2], c[3], o)
    \/ \E n \in 1..MaxInFlight : Settle(n, "value")
    \/ \E n \in 1..MaxInFlight, o \in ConcurrentOutcomes : ContinueStep(n, o)

ConcurrentSpec == Init /\ [][NextConcurrent]_vars

(* Searches over graphs with cycles, self-loops, parallel and zero-weight edges *)

SearchLearnCalls == {<<"canvas", "A", 2, 1>>, <<"canvas", "A", 0, 1>>,
                     <<"A", "A", 0, 5>>, <<"A", "canvas", 0, 1>>,
                     <<"A", "image", 0, 5>>}
SearchQueries == {<<"canvas", "A">>, <<"canvas", "image">>, <<"A", "rasterUrl">>,
                  <<"image", "B">>}

NextSearch ==
    \/ \E l \in SearchLearnCalls : Learn(l[1], l[2], l[3], l[4])
    \/ \E q \in SearchQueries : GetConversionPath(q[1], q[2])

SearchSpec == Init /\ [][NextSearch]_vars

(* Registrations with arguments inside and outside learn's preconditions *)

RegistrationCalls ==
    {<<"canvas", "A", TRUE, 0, 1>>, <<"canvas", "A", TRUE, 7, 1>>,
     <<"canvas", "A", TRUE, 8, 1>>, <<"canvas", "A", TRUE, -1, 1>>,
     <<"canvas", "A", FALSE, 0, 1>>, <<"A", "image", FALSE, 8, 1>>,
     <<"A", "image", TRUE, 1, 5>>}
RegistrationQueries == {<<"canvas", "A">>, <<"canvas", "image">>, <<"A", "image">>}

NextRegistration ==
    \/ \E l \in RegistrationCalls : LearnAny(l[1], l[2], l[3], l[4], l[5])
    \/ \E q \in RegistrationQueries : GetConversionPath(q[1], q[2])

RegistrationSpec == Init /\ [][NextRegistration]_vars

(* A priority queue on its own, under any sequence of its operations *)

MaxKey == 2
QueueKeys == 0..MaxKey

NextQueue ==
    \/ \E v \in QueueNodes, key \in QueueKeys : QueueInsertNode(v, key)
    \/ QueueRemove
    \/ \E v \in QueueNodes, key \in QueueKeys : QueueDecreaseKey(v, key)

QueueSpec == Init /\ [][NextQueue]_vars

(* Type inference: guessType over scalars and arrays *)

DivName == <<"D", "I", "V">>
GuessItemValues ==
    {JsNull, JsUndefined, Native(ImageTag), Native(StringTag), PlainObject,
     TypedObject(CustomTag), DomNode(DivName), ArrayOf(<<Native(ImageTag)>>),
     ArrayOf(<<Native(StringTag), JsNull, Native(ImageTag)>>)}
GuessArrays ==
    {ArrayOf(items) : items \in UNION {[1..n -> GuessItemValues] : n \in 0..MaxItems}}

NextGuess ==
    \E x \in GuessItemValues \cup GuessArrays : GuessType(x)

GuessSpec == Init /\ [][NextGuess]_vars

(* Edge weights: learn over the whole range of cost classes *)

WeightPowers == 0..7
WeightMultipliers == {0, 1, 5, 15, 16, 100000}

NextWeight ==
    \E p \in WeightPowers, m \in WeightMultipliers : Learn("A", "B", p, m)

WeightSpec == Init /\ [][NextWeight]_vars

-----------------------------------------------------------------------------
(* Reference definitions for the properties *)

AllEdges == UNION {{adjacencyList[t][k] : k \in 1..Len(adjacencyList[t])} :
                   t \in DOMAIN adjacencyList}

SetMin(S) == CHOOSE x \in S : \A y \in S : x <= y

(* Cheapest cost of a directed edge sequence of at most 'rounds' more edges   *)
(* from the source to each vertex, given the costs 'dist' found so far         *)
RECURSIVE Distances(_, _)
Distances(dist, rounds) ==
    IF rounds = 0 THEN dist
    ELSE Distances([t \in DOMAIN dist |->
                      SetMin({dist[t]} \cup
                             {dist[e.origin] + e.weight :
                                e \in {f \in AllEdges : f.target = t
                                                        /\ dist[f.origin] < Infinity}})],
                   rounds - 1)

(* Minimum, over all directed edge sequences from a to b, of the summed weights *)
MinCost(a, b) ==
    Distances([t \in DOMAIN adjacencyList |-> IF t = a THEN 0 ELSE Infinity],
              Cardinality(DOMAIN adjacencyList))[b]

Reachable(a, b) ==
    /\ a \in DOMAIN adjacencyList
    /\ b \in DOMAIN adjacencyList
    /\ MinCost(a, b) < Infinity

(* The last call was getConversionPath(from, to) with a single destination *)
SingleQuery == lastCall.op = "getConversionPath" /\ ~lastCall.isArray

EdgeOfLearn(i) == CHOOSE e \in AllEdges : e.transform = i

-----------------------------------------------------------------------------
(* C1: whenever getConversionPath(A, B) with A /= B returns a path, the path  *)
(* is non-empty, starts at A, ends at B, and consecutive edges are contiguous. *)
C1_PathValidity ==
    (SingleQuery /\ lastCall.from /= lastCall.to[1] /\ lastCall.ret.defined)
    => LET p == lastCall.ret.path
       IN /\ Len(p) > 0
          /\ p[1].origin = lastCall.from
          /\ p[Len(p)].target = lastCall.to[1]
          /\ \A i \in 1..(Len(p) - 1) : p[i].target = p[i + 1].origin

(* C2: when B is not reachable from A (disconnected or never registered),     *)
(* getConversionPath(A, B) returns absent.                                     *)
C2_NoPath ==
    (SingleQuery /\ lastCall.from /= lastCall.to[1]
       /\ ~Reachable(lastCall.from, lastCall.to[1]))
    => ~lastCall.ret.defined

(* C3: for every pair A /= B with B reachable from A, the search reports a    *)
(* result whose cost is the minimum summed weight over all directed edge       *)
(* sequences from A to B.                                                      *)
C3_CheapestPath ==
    \A from \in DOMAIN known : \A to \in DOMAIN known[from] :
        (from /= to /\ Reachable(from, to))
        => /\ known[from][to].defined
           /\ known[from][to].cost = MinCost(from, to)

(* A search from canvas to A ran over two parallel edges, the dearer one       *)
(* registered first, so that the key of A was first set to 24 and then lowered *)
(* to 12; and a cached two-edge route from canvas to image is the cheapest.    *)
C3_Witness ==
    /\ SingleQuery /\ lastCall.searched
    /\ lastCall.from = "canvas" /\ lastCall.to = <<"A">>
    /\ known["canvas"]["A"].cost = 12
    /\ \E i, j \in 1..Len(adjacencyList["canvas"]) :
          /\ i < j
          /\ adjacencyList["canvas"][i].target = "A" /\ adjacencyList["canvas"][i].weight = 24
          /\ adjacencyList["canvas"][j].target = "A" /\ adjacencyList["canvas"][j].weight = 12
    /\ "image" \in DOMAIN known["canvas"]
    /\ known["canvas"]["image"].cost = 36

(* C4: with two direct edges A->B of cost classes 0 and 2 (multiplier 1),     *)
(* registered in either order, the path returned for (A, B) is the class-0 edge. *)
C4_CostOrdering ==
    LET from == lastCall.from
        to == lastCall.to[1]
        direct == {e \in AllEdges : e.origin = from /\ e.target = to}
    IN (/\ SingleQuery
        /\ Cardinality(direct) = 2
        /\ {learnArgs[e.transform].costPower : e \in direct} = {0, 2}
        /\ \A e \in direct : learnArgs[e.transform].costMultiplier = 1)
       => /\ lastCall.ret.defined
          /\ Len(lastCall.ret.path) = 1
          /\ learnArgs[lastCall.ret.path[1].transform].costPower = 0

(* C5: for cost classes in 0..7 and multipliers in 1..100000, the weights of  *)
(* two learned edges compare as (class, multiplier) compare lexicographically. *)
C5_WeightOrder ==
    \A i, j \in DOMAIN learnArgs :
        LET a == learnArgs[i]
            b == learnArgs[j]
        IN (/\ a.costPower \in 0..7 /\ b.costPower \in 0..7
            /\ a.costMultiplier \in 1..100000 /\ b.costMultiplier \in 1..100000)
           => ((EdgeOfLearn(i).weight < EdgeOfLearn(j).weight)
               <=> \/ a.costPower < b.costPower
                   \/ a.costPower = b.costPower /\ a.costMultiplier < b.costMultiplier)

(* C6: the multiplier that enters an edge's weight is min(max(m, 1), 100000), *)
(* so multipliers that differ inside 1..100000 give different weights within   *)
(* a class.                                                                    *)
C6_MultiplierClamp ==
    /\ \A i \in DOMAIN learnArgs :
          BitXor(EdgeOfLearn(i).weight, (learnArgs[i].costPower + 1) * 10) - 5
            = Min(Max(learnArgs[i].costMultiplier, 1), 100000)
    /\ \A i, j \in DOMAIN learnArgs :
          (/\ learnArgs[i].costPower = learnArgs[j].costPower
           /\ learnArgs[i].costMultiplier \in 1..100000
           /\ learnArgs[j].costMultiplier \in 1..100000
           /\ learnArgs[i].costMultiplier /= learnArgs[j].costMultiplier)
          => EdgeOfLearn(i).weight /= EdgeOfLearn(j).weight

C8_CacheConsistency ==
    (SingleQuery /\ lastCall.repeat) => lastCall.ret = lastCall.prev

(* A repeated call answered from the cache, and a repeated call that searched *)
(* again, each equal to the earlier result.                                    *)
C8_Witness ==
    /\ SingleQuery /\ lastCall.repeat
    /\ lastCall.ret.defined /\ ~lastCall.searched
    /\ Len(lastCall.ret.path) = 2
    /\ \E q \in DOMAIN queried : ~queried[q].defined

(* C9: the second of two getConversionPath(A, B) calls with no learn between  *)
(* them performs no graph search, also when no path exists.                    *)
C9_NoReSearch ==
    (SingleQuery /\ lastCall.repeat) => ~lastCall.searched

(* C10: getConversionPath(T, T) returns the empty path, cached with cost 0,   *)
(* and convert(x, T, T) resolves to x with no transform or destructor invoked. *)
C10_IdentityPath ==
    /\ (SingleQuery /\ lastCall.from = lastCall.to[1])
       => /\ lastCall.ret = [defined |-> TRUE, path |-> <<>>]
          /\ known[lastCall.from][lastCall.from].cost = 0
    /\ \A n \in DOMAIN conversions :
          conversions[n].to = <<conversions[n].from>>
          => /\ conversions[n].status = "resolved"
             /\ conversions[n].result = conversions[n].input
             /\ conversions[n].log = <<>>

(* convert(x, canvas, canvas) was called with a destructor registered for     *)
(* canvas, after getConversionPath(B, B) for the unregistered type B.          *)
C10_Witness ==
    /\ "canvas" \in DOMAIN destructors
    /\ \E n \in DOMAIN conversions :
          conversions[n].from = "canvas" /\ conversions[n].to = <<"canvas">>
    /\ <<"B", "B">> \in DOMAIN queried
    /\ "B" \notin DOMAIN vertices
    /\ <<"canvas", "canvas">> \in DOMAIN queried

(* The candidates of 'to' for which the cache holds a path from 'from' *)
CachedCandidates(from, to) ==
    {to[k] : k \in {j \in DOMAIN to : Cached(from, to[j]).defined}}

(* The last call was getConversionPath(from, to) with an array of candidates *)
ArrayQuery == lastCall.op = "getConversionPath" /\ lastCall.isArray

(* C11: when getConversionPath(A, [t1..tn]) is called and at least one        *)
(* candidate has a cached path, the path returned is a cached path of minimum  *)
(* cost among the cached candidates, whatever the order of the candidates.     *)
C11_MultiCandidate ==
    [][ArrayQuery' /\ CachedCandidates(lastCall'.from, lastCall'.to) /= {}
       => \E t \in CachedCandidates(lastCall'.from, lastCall'.to) :
             /\ lastCall'.ret = [defined |-> TRUE,
                                 path |-> Cached(lastCall'.from, t).path]
             /\ \A u \in CachedCandidates(lastCall'.from, lastCall'.to) :
                   Cached(lastCall'.from, t).cost <= Cached(lastCall'.from, u).cost]_vars

(* An array query found both of its candidates cached, at different costs,    *)
(* and returned the path of the second one, the cheaper.                       *)
C11_Witness ==
    /\ ArrayQuery /\ ~lastCall.searched
    /\ CachedCandidates(lastCall.from, lastCall.to) = {"A", "image"}
    /\ Cached(lastCall.from, lastCall.to[2]).cost < Cached(lastCall.from, lastCall.to[1]).cost
    /\ lastCall.ret.path = Cached(lastCall.from, lastCall.to[2]).path

(* C12: when no candidate of the list has a cached path, getConversionPath(A, *)
(* [t1..tn]) searches once, for t1, returns what getConversionPath(A, t1)      *)
(* returns, and stores the result under (A, t1) only.                          *)
C12_FirstCandidate ==
    [][ArrayQuery' /\ CachedCandidates(lastCall'.from, lastCall'.to) = {}
       => /\ lastCall'.searched
          /\ lastCall'.ret = getConversionPath(known, Graph, lastCall'.from,
                                               <<lastCall'.to[1]>>, FALSE).ret
          /\ known' = getConversionPath(known, Graph, lastCall'.from,
                                        <<lastCall'.to[1]>>, FALSE).known
          /\ known'[lastCall'.from][lastCall'.to[1]]
                = dijkstra(Graph, lastCall'.from, lastCall'.to[1]).result
          /\ \A from \in DOMAIN known' : \A to \in DOMAIN known'[from] :
                <<from, to>> /= <<lastCall'.from, lastCall'.to[1]>>
                => /\ from \in DOMAIN known
                   /\ to \in DOMAIN known[from]
                   /\ known'[from][to] = known[from][to]]_vars

(* An array query with two candidates, neither cached, searched and found a   *)
(* path for the first; the second is still not in the cache.                   *)
C12_Witness ==
    /\ ArrayQuery /\ lastCall.searched /\ lastCall.ret.defined
    /\ Len(lastCall.to) = 2
    /\ Cached(lastCall.from, lastCall.to[1]).defined
    /\ lastCall.to[2] \notin DOMAIN known[lastCall.from]
    /\ Reachable(lastCall.from, lastCall.to[2])

(* C13: whenever getConversionPath yields absent for the requested origin and *)
(* candidates, convert invokes no transform and no destructor, does not throw, *)
(* and its promise resolves to undefined.                                      *)
C13_ConvertWithoutPath ==
    /\ \A n \in DOMAIN conversions :
          ~conversions[n].planned
          => /\ conversions[n].status = "resolved"
             /\ conversions[n].result = UndefinedValue
             /\ conversions[n].log = <<>>
    /\ (lastCall.op = "convert" /\ ~lastCall.ret.defined)
       => /\ ~conversions[Len(conversions)].planned
          /\ conversions[Len(conversions)].from = lastCall.from

(* convert(x, B, canvas) was called for the unregistered type B, for which    *)
(* the search finds nothing, while a destructor was registered for canvas.     *)
C13_Witness ==
    /\ lastCall.op = "convert" /\ ~lastCall.ret.defined /\ lastCall.searched
    /\ lastCall.from = "B"
    /\ "canvas" \in DOMAIN destructors
    /\ conversions[Len(conversions)].status = "resolved"

(* C14: in a convert over a multi-edge path, for synchronous and asynchronous *)
(* transforms alike, the destructor of an intermediate value's type is invoked *)
(* once, after the transform consuming that value has resolved its replacement *)
(* and before the next transform is invoked.                                   *)
C14_CleanupOrder ==
    \A n \in DOMAIN conversions :
        LET c == conversions[n]
        IN /\ \A k \in DOMAIN c.log :
                 c.log[k].kind = "destroy"
                 => /\ k > 1
                    /\ c.log[k - 1].kind = "transform"
                    /\ c.log[k - 1].data = c.log[k].data
                    /\ c.log[k - 1].type = c.log[k].type
           /\ \A j, k \in DOMAIN c.log :
                 (/\ c.log[j].kind = "destroy" /\ c.log[k].kind = "destroy"
                  /\ c.log[j].data = c.log[k].data)
                 => j = k
           /\ (c.status = "awaiting" /\ c.log[Len(c.log)].data /= c.input)
              => c.log[Len(c.log)].kind /= "destroy"

(* C15: if the transform of step k yields a falsy result, returned directly   *)
(* or as the resolution of a promise, no transform of a later step is invoked  *)
(* and convert resolves to an empty result.                                    *)
C15_MidPathFailure ==
    \A n \in DOMAIN conversions :
        LET c == conversions[n]
        IN /\ \A k \in DOMAIN c.log :
                 c.log[k].kind = "transform" => c.log[k].data /= UndefinedValue
           /\ (c.x = UndefinedValue /\ c.status = "resolved")
              => c.result = UndefinedValue

(* C16: whatever the transforms of a path do (return a value or a falsy       *)
(* value, throw, return a promise that rejects), convert never throws and its  *)
(* promise never rejects.                                                      *)
C16_NoFaultEscapes ==
    \A n \in DOMAIN conversions :
        conversions[n].status \notin {"thrown", "rejected"}

(* The transforms of the first k edges of the path of conversion c *)
PathTransforms(c, k) == [j \in 1..k |-> c.path[j].transform]

(* The value that the first k transforms of c's path make of c's input *)
Chained(c, k) == Value(c.input.trace \o PathTransforms(c, k))

(* Every step of c so far resolved to a value that is not falsy *)
Defined(c) ==
    /\ c.x /= UndefinedValue
    /\ c.result /= UndefinedValue \/ c.status /= "resolved"
    /\ \A k \in DOMAIN c.log : c.log[k].data /= UndefinedValue

(* C17: within one convert call the transform of step i+1 is invoked only     *)
(* after the result of step i is settled and receives exactly the resolved     *)
(* value of step i; convert resolves to the resolved result of the last step.  *)
C17_StepChaining ==
    [][\A n \in DOMAIN conversions' :
          LET d == conversions'[n]
          IN /\ (d.status \in {"pending", "awaiting"} /\ Defined(d))
                => d.x = Chained(d, d.i)
             /\ (d.status = "resolved" /\ d.planned /\ Defined(d))
                => d.result = Chained(d, Len(d.path))
             /\ IF n \in DOMAIN conversions
                THEN LET c == conversions[n]
                     IN /\ Len(d.log) > Len(c.log)
                           => /\ c.status = "pending"
                              /\ d.log[Len(c.log) + 1]
                                   = [kind |-> "transform",
                                      callback |-> c.path[c.i + 1].transform,
                                      type |-> c.path[c.i + 1].origin,
                                      data |-> c.x]
                        /\ (d.status = "resolved" /\ c.status /= "resolved")
                           => d.result \in {c.x, UndefinedValue}
                ELSE d.log /= <<>> => d.log[1].data = d.input]_vars

(* A conversion over the three-edge path from rasterUrl to context2d resolved *)
(* to the value that the three transforms, applied in turn, make of the input. *)
C17_Witness ==
    \E n \in DOMAIN conversions :
        /\ conversions[n].status = "resolved"
        /\ Len(conversions[n].path) = 3
        /\ conversions[n].result = Chained(conversions[n], 3)
        /\ Len(conversions[n].result.trace) = 3

(* C19: after any sequence of learnDestroy calls, destroy(type, value)        *)
(* invokes exactly once the destructor most recently registered for the type,  *)
(* passing value, and invokes nothing when none is registered.                 *)
C19_DestructorRegistry ==
    [][/\ lastCall'.op = "learnDestroy"
          => /\ destructors'[lastCall'.from] = lastCall'.callback
             /\ \A t \in DOMAIN destructors' \ {lastCall'.from} :
                   t \in DOMAIN destructors /\ destructors'[t] = destructors[t]
       /\ lastCall'.op /= "learnDestroy" => destructors' = destructors
       /\ lastCall'.op = "destroy"
          => lastCall'.invoked
               = IF lastCall'.from \in DOMAIN destructors'
                 THEN << [kind |-> "destroy",
                          callback |-> destructors'[lastCall'.from],
                          type |-> lastCall'.from, data |-> lastCall'.data] >>
                 ELSE <<>>]_vars

(* destroy(canvas, x) invoked destroyB, registered for canvas after destroyA  *)
(* had been registered and invoked for canvas inside a conversion.             *)
C19_Witness ==
    /\ lastCall.op = "destroy" /\ lastCall.from = "canvas"
    /\ Len(lastCall.invoked) = 1
    /\ lastCall.invoked[1].callback = "destroyB"
    /\ \E n \in DOMAIN conversions : \E k \in DOMAIN conversions[n].log :
          /\ conversions[n].log[k].kind = "destroy"
          /\ conversions[n].log[k].type = "canvas"
          /\ conversions[n].log[k].callback = "destroyA"

(* C20: learnDestroy and destroy add or remove no vertex and no edge and       *)
(* leave every path-cache entry as it is, so every getConversionPath result is *)
(* the same before and after them.                                             *)
C20_PlanningUnchanged ==
    [][(lastCall'.op \in {"learnDestroy", "destroy"} /\ lastCall' /= lastCall)
       => /\ adjacencyList' = adjacencyList
          /\ DOMAIN vertices' = DOMAIN vertices
          /\ known' = known
          /\ \A c \in {<<"canvas", <<"image", "A">> >>, <<"B", <<"canvas">> >>} :
                getConversionPath(known', Graph', c[1], c[2], TRUE).ret
                  = getConversionPath(known, Graph, c[1], c[2], TRUE).ret]_vars

(* destroy(canvas, x) invoked a destructor while the cache held a path.       *)
C20_Witness ==
    /\ lastCall.op = "destroy" /\ Len(lastCall.invoked) = 1
    /\ "canvas" \in DOMAIN known
    /\ \E t \in DOMAIN known["canvas"] : known["canvas"][t].defined
                                          /\ Len(known["canvas"][t].path) = 2

(* The transform entries of a log, in order *)
RECURSIVE Transforms(_)
Transforms(lg) ==
    IF lg = <<>> THEN <<>>
    ELSE IF lg[1].kind = "transform"
         THEN <<lg[1]>> \o Transforms(Tail(lg))
         ELSE Transforms(Tail(lg))

(* C18: for any interleaving of several in-flight convert calls with each     *)
(* other and with learn and getConversionPath calls, each convert executes the *)
(* transforms of the path planned when it was called, in path order, on its    *)
(* own value; a learn or a search while a conversion is suspended changes      *)
(* neither the remaining steps nor their order.                                *)
C18_ConcurrentConversions ==
    [][\A n \in DOMAIN conversions' :
          LET d == conversions'[n]
              ts == Transforms(d.log)
          IN /\ \A k \in DOMAIN ts :
                   /\ k <= Len(d.path)
                   /\ ts[k].callback = d.path[k].transform
                   /\ ts[k].data = Chained(d, k - 1)
             /\ IF n \in DOMAIN conversions
                THEN /\ d.path = conversions[n].path
                     /\ d.input = conversions[n].input
                     /\ lastCall' /= lastCall => d = conversions[n]
                ELSE /\ d.path = lastCall'.ret.path
                     /\ lastCall'.op = "convert"]_vars

(* Two conversions of different values are suspended at the same time, each   *)
(* after its first step, and a learn call made meanwhile has given their pair  *)
(* of types a route other than the one they were planned with.                 *)
C18_Witness ==
    /\ Len(conversions) = 2
    /\ \A n \in {1, 2} : conversions[n].status = "awaiting" /\ conversions[n].i = 1
    /\ conversions[1].input /= conversions[2].input
    /\ lastCall.op = "learn"
    /\ dijkstra(Graph, "canvas", "image").result.path /= conversions[1].path

(* The number of edges in the adjacency lists adj[t], t in S *)
RECURSIVE EdgeCount(_, _)
EdgeCount(adj, S) ==
    IF S = {} THEN 0
    ELSE LET t == CHOOSE u \in S : TRUE
         IN Len(adj[t]) + EdgeCount(adj, S \ {t})

(* C21: every learn(from, to, ...) call appends exactly one edge to the        *)
(* adjacency list of from and never removes or replaces an edge or a vertex,   *)
(* so after n learn calls the graph holds exactly n edges, parallel edges      *)
(* included.                                                                   *)
C21_LearnOnlyAdds ==
    [][/\ EdgeCount(adjacencyList', DOMAIN adjacencyList') = Len(learnArgs')
       /\ DOMAIN vertices \subseteq DOMAIN vertices'
       /\ \A t \in DOMAIN adjacencyList :
             /\ t \in DOMAIN adjacencyList'
             /\ Len(adjacencyList'[t]) >= Len(adjacencyList[t])
             /\ SubSeq(adjacencyList'[t], 1, Len(adjacencyList[t])) = adjacencyList[t]
       /\ learnArgs' /= learnArgs
          => LET a == learnArgs'[Len(learnArgs')]
                 old == IF a.from \in DOMAIN adjacencyList
                        THEN adjacencyList[a.from] ELSE <<>>
             IN /\ Len(learnArgs') = Len(learnArgs) + 1
                /\ Len(adjacencyList'[a.from]) = Len(old) + 1
                /\ adjacencyList'[a.from][Len(old) + 1].origin = a.from
                /\ adjacencyList'[a.from][Len(old) + 1].target = a.to
                /\ \A t \in DOMAIN adjacencyList' \ {a.from} :
                      adjacencyList'[t] = IF t \in DOMAIN adjacencyList
                                          THEN adjacencyList[t] ELSE <<>>]_vars

(* Two learn calls for the pair (canvas, A) have left two parallel edges.     *)
C21_Witness ==
    /\ lastCall.op = "learn" /\ lastCall.from = "canvas" /\ lastCall.to = <<"A">>
    /\ Len(learnArgs) = Len(Builtins) + 2
    /\ Cardinality({k \in DOMAIN adjacencyList["canvas"] :
                      adjacencyList["canvas"][k].target = "A"}) = 2

(* String.prototype.toLowerCase on the node names that occur *)
ToLowerCase(string) ==
    [k \in DOMAIN string |->
       CASE string[k] = "D" -> "d" [] string[k] = "I" -> "i" [] string[k] = "V" -> "v"
         [] OTHER -> string[k]]

(* x is a DOM node, or an array that holds one at some depth *)
RECURSIVE HoldsDomNode(_)
HoldsDomNode(x) ==
    \/ x.kind = "dom-node"
    \/ \E k \in DOMAIN x.items : HoldsDomNode(x.items[k])

(* C22: for every input value, DOM nodes included, guessType raises no error  *)
(* and returns a type identifier; for a DOM node, its lowercase node name.     *)
C22_GuessTypeNeverThrows ==
    lastCall.op = "guessType"
    => /\ ~lastCall.result.thrown
       /\ lastCall.x.kind = "dom-node"
          => lastCall.result.string = ToLowerCase(lastCall.x.tag)

(* The inferred types of the non-null, non-undefined items, as a set *)
ItemTypes(items) ==
    {guessType(items[k]).string :
       k \in {j \in DOMAIN items : items[j].kind \notin {"null", "undefined"}}}

(* The strings of the set S in ascending order *)
RECURSIVE Ascending(_)
Ascending(S) ==
    IF S = {} THEN <<>>
    ELSE LET least == CHOOSE a \in S : \A b \in S \ {a} : StringLess(a, b)
         IN <<least>> \o Ascending(S \ {least})

(* C23: for every array input the result is "Array [" followed by the         *)
(* inferred types of its non-null, non-undefined elements, de-duplicated,      *)
(* sorted and joined by commas, followed by "]".                               *)
C23_GuessTypeArray ==
    (lastCall.op = "guessType" /\ lastCall.x.kind = "array")
    => /\ ~lastCall.result.thrown
       /\ lastCall.result.string
            = ArrayPrefix \o Join(Ascending(ItemTypes(lastCall.x.items))) \o <<"]">>

(* The summed weights of the edges of a path *)
RECURSIVE PathWeight(_)
PathWeight(path) ==
    IF path = <<>> THEN 0 ELSE path[1].weight + PathWeight(Tail(path))

(* C24: for every path result {path, cost} produced by the search and stored  *)
(* in the cache, cost equals the sum of the weights of the edges in path, also *)
(* when parallel edges with different weights exist.                           *)
C24_CostMatchesPath ==
    \A from \in DOMAIN known : \A to \in DOMAIN known[from] :
        known[from][to].defined
        => known[from][to].cost = PathWeight(known[from][to].path)

(* A value of type a can be turned into one of type b: a is b, or there is a   *)
(* directed edge sequence from a to b                                          *)
Convertible(a, b) == a = b \/ Reachable(a, b)

(* The type of the value a conversion over 'path' from type 'from' ends with *)
FinalType(from, path) == IF path = <<>> THEN from ELSE path[Len(path)].target

(* C25: if at least one candidate ti is reachable from A in the graph, then    *)
(* convert(x, A, t1..tn) does not report conversion-not-found and its path     *)
(* ends at one of the listed types, whatever the cache holds and whatever the  *)
(* order of the candidates.                                                    *)
C25_ReachesListedType ==
    (/\ lastCall.op = "convert"
     /\ \E k \in DOMAIN lastCall.to : Convertible(lastCall.from, lastCall.to[k]))
    => /\ lastCall.ret.defined
       /\ \E k \in DOMAIN lastCall.to :
             FinalType(lastCall.from, lastCall.ret.path) = lastCall.to[k]

(* C26: for every cost class in 0..7 and every costMultiplier, the weight of   *)
(* the edge added by learn is strictly greater than 0.                         *)
C26_PositiveWeights ==
    \A i \in DOMAIN learnArgs :
        learnArgs[i].costPower \in 0..7 => EdgeOfLearn(i).weight > 0

(* The states a search passes through, one per iteration of the while loop,   *)
(* from the state d after the reset; at most 'fuel' iterations are followed    *)
RECURSIVE SearchTrace(_, _, _, _)
SearchTrace(adj, d, finish, fuel) ==
    IF d.broke \/ getCount(d) = 0 \/ fuel = 0 THEN <<d>>
    ELSE <<d>> \o SearchTrace(adj, DijkstraIteration(adj, d, finish), finish, fuel - 1)

(* The search from a to b on the graph as it is, scratch fields included *)
TraceOf(a, b) ==
    SearchTrace(adjacencyList, DijkstraReset(vertices, a), b,
                Cardinality(DOMAIN vertices) + 1)

(* Where the _previous links lead from v, following at most 'fuel' of them *)
RECURSIVE ChainEnd(_, _, _)
ChainEnd(vs, v, fuel) ==
    IF vs[v].previous \in {Null, Undefined} THEN v
    ELSE IF fuel = 0 THEN Undefined
    ELSE ChainEnd(vs, vs[v].previous, fuel - 1)

Queued(d) == {d.nodes[k] : k \in DOMAIN d.nodes}

(* Sources and targets of the searches looked at: every vertex, and the       *)
(* unregistered type B as a target no search can reach                         *)
SearchPairs == (DOMAIN vertices) \X ((DOMAIN vertices) \cup {"B"})

(* C27: on every graph built by learn calls a search terminates: each vertex  *)
(* is extracted from the queue at most once, no extracted vertex is inserted   *)
(* again, and the predecessor links form an acyclic chain ending at the origin. *)
C27_SearchTerminates ==
    \A p \in SearchPairs :
        p[1] /= p[2]
        => LET tr == TraceOf(p[1], p[2])
               last == tr[Len(tr)]
           IN /\ last.broke \/ getCount(last) = 0
              /\ Len(tr) <= Cardinality(DOMAIN vertices) + 1
              /\ \A j, k \in 2..Len(tr) :
                    j < k => /\ tr[j].smallestNode /= tr[k].smallestNode
                             /\ tr[j].smallestNode \notin Queued(tr[k])
              /\ \A v \in DOMAIN last.vs :
                    last.vs[v].key < Infinity
                    => ChainEnd(last.vs, v, Cardinality(DOMAIN vertices)) = p[1]

(* A search from canvas to image has run on a graph in which A, one edge     *)
(* from canvas, has a self-loop of weight 0, and canvas lies on a cycle.       *)
C27_Witness ==
    /\ SingleQuery /\ lastCall.searched
    /\ lastCall.from = "canvas" /\ lastCall.to = <<"image">>
    /\ \E e \in AllEdges : e.origin = "A" /\ e.target = "A" /\ e.weight = 0
    /\ \E e \in AllEdges : e.origin = "canvas" /\ e.target = "A"
    /\ \E e, f \in AllEdges : /\ e.origin = "canvas" /\ e.target = f.origin
                               /\ f.target = "canvas"
    /\ vertices["A"].key < vertices["image"].key

(* The graph with the scratch fields of every vertex as the constructor of    *)
(* PriorityQueue.Node leaves them                                              *)
FreshGraph == [adj |-> adjacencyList, vs |-> [t \in DOMAIN vertices |-> NewNode]]

(* C28: the result of a search for (A, B) is a function of the graph's edges  *)
(* and of (A, B) only: the key, predecessor and heap index left in the         *)
(* vertices by earlier searches, early-exited ones included, never change it.  *)
C28_HistoryIndependent ==
    \A p \in SearchPairs :
        dijkstra(Graph, p[1], p[2]).result = dijkstra(FreshGraph, p[1], p[2]).result

(* A search has left by break with a vertex still in the queue, its heap      *)
(* index and a finite key in place, and predecessor links set.                 *)
C28_Witness ==
    /\ SingleQuery /\ lastCall.searched /\ lastCall.ret.defined
    /\ \E v \in DOMAIN vertices :
          /\ vertices[v].index /= NoIndex
          /\ vertices[v].key < Infinity
          /\ vertices[v].previous = lastCall.from
          /\ Reachable(v, "image")

(* The queue after each edge neighbors[k..] of u has been looked at in turn *)
RECURSIVE EdgePoints(_, _, _, _)
EdgePoints(q, neighbors, u, k) ==
    IF k > Len(neighbors) THEN <<>>
    ELSE LET next == Relax(q, <<neighbors[k]>>, u, 1)
         IN <<next>> \o EdgePoints(next, neighbors, u, k + 1)

(* The points of one iteration from r = nodes.remove(): after the removal,    *)
(* then after each edge of the extracted vertex                                *)
PointsAfter(adj, r, finish) ==
    <<[nodes |-> r.nodes, vs |-> r.vs]>>
    \o (IF r.removed = finish THEN <<>>
        ELSE EdgePoints([nodes |-> r.nodes, vs |-> r.vs], adj[r.removed], r.removed, 1))

IterationPoints(adj, d, finish) ==
    PointsAfter(adj, remove([nodes |-> d.nodes, vs |-> d.vs]), finish)

(* The queue q holds, once each and at the heap index it records, exactly     *)
(* the vertices with a finite key that are not in 'extracted'                  *)
QueueExact(q, extracted) ==
    /\ Queued(q) = {v \in DOMAIN q.vs : q.vs[v].key < Infinity} \ extracted
    /\ Len(q.nodes) = Cardinality(Queued(q))
    /\ \A k \in DOMAIN q.nodes : q.vs[q.nodes[k]].index = k - 1
    /\ \A v \in DOMAIN q.vs \ Queued(q) :
          v \in extracted \/ q.vs[v].key = Infinity => q.vs[v].index = NoIndex

(* From point 'before' to point 'after' no key rises, and a vertex whose key  *)
(* changed has a strictly lower key and is in the queue                        *)
KeysLowered(before, after) ==
    \A v \in DOMAIN after.vs :
        /\ after.vs[v].key <= before.vs[v].key
        /\ after.vs[v].key /= before.vs[v].key => v \in Queued(after)
        /\ v \in Queued(before) => v \in Queued(after)

PointsHold(tr, j, pts) ==
    LET extracted == {tr[i].smallestNode : i \in 2..(j + 1)}
    IN /\ \A k \in DOMAIN pts :
             /\ QueueExact(pts[k], extracted)
             /\ k > 1 => KeysLowered(pts[k - 1], pts[k])
       /\ pts[Len(pts)].nodes = tr[j + 1].nodes
       /\ \A v \in DOMAIN tr[j + 1].vs : pts[Len(pts)].vs[v] = tr[j + 1].vs[v]

TraceHolds(tr, finish) ==
    /\ QueueExact(tr[1], {})
    /\ \A j \in 1..(Len(tr) - 1) :
          PointsHold(tr, j, IterationPoints(adjacencyList, tr[j], finish))

(* C29: at every point of a search (after the reset, after each extraction,   *)
(* after each edge looked at) the queue holds exactly the vertices with a      *)
(* finite key that have not been extracted; no vertex with key Infinity is     *)
(* queued; a key the search changes becomes strictly lower and its vertex is   *)
(* in the queue from then on until it is extracted.                            *)
C29_LazyInsertion ==
    \A p \in SearchPairs :
        p[1] /= p[2] => TraceHolds(TraceOf(p[1], p[2]), p[2])

(* A search from canvas has run on a graph where canvas has two edges to A,   *)
(* the later one cheaper, so that the key of the queued vertex A was lowered,  *)
(* and it ended with A extracted and other reached vertices still undiscovered *)
(* or queued.                                                                  *)
C29_Witness ==
    /\ SingleQuery /\ lastCall.searched /\ lastCall.from = "canvas"
    /\ "A" \in DOMAIN vertices
    /\ \E i, j \in DOMAIN adjacencyList["canvas"] :
          /\ i < j
          /\ adjacencyList["canvas"][i].target = "A"
          /\ adjacencyList["canvas"][j].target = "A"
          /\ adjacencyList["canvas"][j].weight < adjacencyList["canvas"][i].weight
          /\ vertices["A"].key = adjacencyList["canvas"][j].weight
    /\ vertices["A"].previous = "canvas"

(* The log entries of a transform call and of a destructor call *)
TransformEntry(edge, x) ==
    [kind |-> "transform", callback |-> edge.transform, type |-> edge.origin, data |-> x]

DestroyEntry(ds, edge, x) ==
    [kind |-> "destroy", callback |-> ds[edge.origin], type |-> edge.origin, data |-> x]

(* What a step that succeeded adds to the log: the transform call, then the   *)
(* destructor of the origin type where one is registered                       *)
Succeeded(ds, edge, x) ==
    IF edge.origin \in DOMAIN ds
    THEN <<TransformEntry(edge, x), DestroyEntry(ds, edge, x)>>
    ELSE <<TransformEntry(edge, x)>>

(* The conversion aborted at the step it stands at: the last thing it did was *)
(* to invoke that step's transform, and it resolved to the empty result        *)
Aborted(c) ==
    /\ c.status = "resolved" /\ c.result = UndefinedValue
    /\ c.i < Len(c.path)
    /\ c.log /= <<>> /\ c.log[Len(c.log)].kind = "transform"

(* In the log of a conversion aborted at step k the transforms of steps 0..k  *)
(* appear in path order; a destructor call comes directly after the transform  *)
(* call whose input it destroys, never after the transform of step k           *)
AbortedLog(c) ==
    LET calls == [j \in 0..c.i |-> CHOOSE e \in DOMAIN c.log :
                                      /\ c.log[e].kind = "transform"
                                      /\ Cardinality({f \in 1..e : c.log[f].kind = "transform"})
                                            = j + 1]
    IN /\ Cardinality({e \in DOMAIN c.log : c.log[e].kind = "transform"}) = c.i + 1
       /\ \A j \in 0..c.i :
             /\ c.log[calls[j]].callback = c.path[j + 1].transform
             /\ c.log[calls[j]].type = c.path[j + 1].origin
       /\ calls[c.i] = Len(c.log)
       /\ c.log[Len(c.log)].data = c.x
       /\ \A e \in DOMAIN c.log :
             c.log[e].kind = "destroy"
             => /\ e > 1
                /\ c.log[e - 1].kind = "transform"
                /\ c.log[e - 1].data = c.log[e].data
                /\ c.log[e - 1].type = c.log[e].type

(* The conversion n as it stood before the step now taken: for a conversion   *)
(* that convert has just created, as it stood before step(x, 0)                *)
BeforeStep(old, new, n) ==
    IF n \in DOMAIN old THEN old[n]
    ELSE [new[n] EXCEPT !.i = 0, !.x = new[n].input, !.log = <<>>,
                        !.status = "pending", !.result = UndefinedValue]

StepEffect(b, a, ds) ==
    a.log /= b.log
    => /\ b.i < Len(b.path)
       /\ a.path = b.path
       /\ a.status = "resolved"
          => /\ a.log = Append(b.log, TransformEntry(b.path[b.i + 1], b.x))
             /\ a.i = b.i /\ a.x = b.x
             /\ Aborted(a) /\ AbortedLog(a)
       /\ a.status \in {"pending", "awaiting"}
          => /\ a.log = b.log \o Succeeded(ds, b.path[b.i + 1], b.x)
             /\ a.i = b.i + 1

(* C30: when convert aborts at step k because the transform of that step      *)
(* returned a falsy value, the destructors registered for the origin types of  *)
(* steps 0..k-1 have been invoked on the inputs of those steps, once each and  *)
(* directly after the step's transform; no destructor is invoked on the input  *)
(* of step k or afterwards, and the abort undoes nothing: the log of what was  *)
(* done, the graph, the cache and the destructors stay as they were.           *)
C30_DestructionOnFailure ==
    [][/\ \A n \in DOMAIN conversions' :
             StepEffect(BeforeStep(conversions, conversions', n), conversions'[n],
                        destructors)
       /\ \A n \in DOMAIN conversions :
             Aborted(conversions[n]) => conversions'[n] = conversions[n]
       /\ (\E n \in DOMAIN conversions' :
              /\ Aborted(conversions'[n])
              /\ n \in DOMAIN conversions => ~Aborted(conversions[n]))
          => /\ adjacencyList' = adjacencyList
             /\ destructors' = destructors
             /\ lastCall'.op /= "convert" => known' = known]_vars

(* A conversion over a path of two edges or more aborted at a step after the  *)
(* first, a destructor being registered for the origin type of the first step  *)
(* and for the type of the value handed to the failing step.                   *)
C30_Witness ==
    \E n \in DOMAIN conversions :
        LET c == conversions[n]
        IN /\ Aborted(c) /\ c.i >= 1 /\ c.x /= UndefinedValue
           /\ c.log[2].kind = "destroy" /\ c.log[2].data = c.input
           /\ c.path[c.i + 1].origin \in DOMAIN destructors

(* The conversion ran over every edge of a path of one edge or more and       *)
(* resolved to a value                                                         *)
Completed(c) ==
    /\ c.status = "resolved" /\ c.planned
    /\ Len(c.path) >= 1 /\ c.i = Len(c.path)
    /\ c.result = c.x /\ c.result /= UndefinedValue

TransformCalls(c) == {e \in DOMAIN c.log : c.log[e].kind = "transform"}
DestroyCalls(c) == {e \in DOMAIN c.log : c.log[e].kind = "destroy"}

(* The position in the log of the transform call of step j (from 1) *)
CallOf(c, j) ==
    CHOOSE e \in TransformCalls(c) :
        Cardinality({f \in TransformCalls(c) : f <= e}) = j

(* The log of a completed conversion: one transform call per edge, in path    *)
(* order, the first on the caller's value under the origin type, each later    *)
(* one on what the step before produced under the type of its own edge; a      *)
(* destructor call comes directly after the transform call whose input it      *)
(* destroys, at most one per step, none where no destructor is registered, and *)
(* none on the value the conversion resolved to                                *)
CompletedLog(c, ds, calls) ==
    /\ Cardinality(TransformCalls(c)) = Len(c.path)
    /\ \A j \in DOMAIN c.path :
          /\ c.log[calls[j]].callback = c.path[j].transform
          /\ c.log[calls[j]].type = c.path[j].origin
          /\ j > 1 => c.log[calls[j]].data
                         \in {UndefinedValue,
                              Value(Append(c.log[calls[j - 1]].data.trace,
                                           c.path[j - 1].transform))}
          /\ c.path[j].origin \notin DOMAIN ds
             => (calls[j] = Len(c.log) \/ c.log[calls[j] + 1].kind = "transform")
    /\ c.log[calls[1]].data = c.input /\ c.log[calls[1]].type = c.from
    /\ c.result = Value(Append(c.log[calls[Len(c.path)]].data.trace,
                               c.path[Len(c.path)].transform))
    /\ \A e \in DestroyCalls(c) :
          /\ e > 1
          /\ c.log[e - 1].kind = "transform"
          /\ c.log[e - 1].data = c.log[e].data
          /\ c.log[e - 1].type = c.log[e].type
          /\ c.log[e].data /= c.result
    /\ Cardinality(DestroyCalls(c)) <= Len(c.path)

(* A step that went on to the next one invoked its transform on its input and *)
(* then destroy on that input under the origin type of its edge                *)
Advanced(b, a, ds) ==
    a.i /= b.i
    => /\ a.i = b.i + 1
       /\ a.log = b.log \o Succeeded(ds, b.path[b.i + 1], b.x)

(* C31: a convert that succeeds over a path of n >= 1 edges has invoked       *)
(* destroy once per edge: on the caller's value under the origin type, on each *)
(* intermediate value under the type of the edge that consumes it, each time   *)
(* directly after that edge's transform, and never on the value it resolves to. *)
C31_DestructionOnSuccess ==
    [][\A n \in DOMAIN conversions' :
          /\ Advanced(BeforeStep(conversions, conversions', n), conversions'[n],
                      destructors)
          /\ Completed(conversions'[n])
             => CompletedLog(conversions'[n], destructors',
                             [j \in DOMAIN conversions'[n].path |->
                                CallOf(conversions'[n], j)])]_vars

(* A conversion over two edges completed with destroy's callback invoked for  *)
(* each edge: on the caller's value and on the intermediate value.             *)
C31_Witness ==
    \E n \in DOMAIN conversions :
        LET c == conversions[n]
        IN /\ Completed(c) /\ Len(c.path) >= 2
           /\ Cardinality(DestroyCalls(c)) = Len(c.path)
           /\ c.log[2].kind = "destroy" /\ c.log[2].data = c.input

(* Every stored edge has a callable transform and a cost class within 0..7 *)
EdgesValid(adj, args) ==
    \A t \in DOMAIN adj : \A k \in DOMAIN adj[t] :
        /\ isFunction(adj[t][k].transform)
        /\ args[adj[t][k].transform].costPower \in 0..7

(* C32: after any sequence of learn calls every stored edge has a callable    *)
(* transform and a cost class within 0..7, and a learn call with a cost class  *)
(* outside 0..7 or a transform that is not a function leaves the graph and the *)
(* path cache as they were.                                                    *)
C32_InvalidRegistrationsCaught ==
    [][/\ EdgesValid(adjacencyList', learnArgs')
       /\ (lastCall'.op = "learn" /\ Len(learnArgs') > Len(learnArgs)
           /\ lastCall'.reports /= <<>>)
          => /\ adjacencyList' = adjacencyList
             /\ DOMAIN vertices' = DOMAIN vertices
             /\ known' = known]_vars

(* Heap position p holds the node that records index p, and no other node     *)
(* records an index                                                            *)
IndicesMatch(q) ==
    /\ \A k \in DOMAIN q.nodes : q.vs[q.nodes[k]].index = k - 1
    /\ \A v \in DOMAIN q.vs : v \notin Queued(q) => q.vs[v].index = NoIndex
    /\ Cardinality(Queued(q)) = Len(q.nodes)

(* C33: after any sequence of insert, remove and decreaseKey operations,      *)
(* remove returns a node whose key is the least of the keys of the nodes in    *)
(* the queue, takes exactly that node out, and every node left in the queue    *)
(* records the heap position it is at.                                         *)
C33_QueueOrder ==
    [][/\ IndicesMatch(queue')
       /\ lastCall'.op = "remove"
          => /\ lastCall'.removed \in Queued(queue)
             /\ \A v \in Queued(queue) :
                   queue.vs[lastCall'.removed].key <= queue.vs[v].key
             /\ Queued(queue') = Queued(queue) \ {lastCall'.removed}
             /\ \A v \in DOMAIN queue.vs : queue'.vs[v].key = queue.vs[v].key]_vars

(* remove has returned a node of a heap of five; of the four nodes left one   *)
(* has the key of the node returned and one a larger key, and the left child   *)
(* of the root has a larger key than the right child.                          *)
C33_Witness ==
    /\ lastCall.op = "remove"
    /\ Len(queue.nodes) >= 4
    /\ \E v \in Queued(queue) : queue.vs[v].key = queue.vs[lastCall.removed].key
    /\ \E v \in Queued(queue) : queue.vs[v].key > queue.vs[lastCall.removed].key
    /\ queue.vs[queue.nodes[2]].key > queue.vs[queue.nodes[3]].key

=============================================================================
